---- MODULE Spec2Model ----
(***************************************************************************)
(* A model of datahog's WorldView aggregator (datahog/src/worldview.rs),   *)
(* of the entity update logic it calls (datahog/src/impls.rs) and of the   *)
(* data model both work on (datahog/src/structs.rs).                       *)
(*                                                                         *)
(* An Option<T> is a sequence of length 0 (None) or 1 (Some(x)); a HashMap *)
(* is a function whose domain is the set of its keys; a Vec is a sequence. *)
(***************************************************************************)
EXTENDS Integers, Sequences, FiniteSets, TLC

VARIABLES
    transactions,         \* WorldView.transactions: Vec<Transaction>
    nodes,                \* WorldView.nodes: HashMap<NodeID, Node>
    edges,                \* WorldView.edges: HashMap<EdgeID, Edge>
    source_capabilities,  \* WorldView.source_capabilities
    source_store,         \* per source: what the aggregator sent on the inbound channel
    source_update,        \* per source: what is buffered in the outbound channel
    source_root,          \* WorldView.source_root: HashMap<SourceID, NodeID>
    sources,              \* WorldView.sources: the ids of the boxed sources held
    panicked,             \* a todo!() was reached: the call unwound half way
    call,                 \* the last call of the public interface: arguments and result
    pre,                  \* the WorldView as it was when that call started
    held,                 \* the copy the last get_node / get_edge handed to its caller
    closed,               \* the sources whose producer dropped its Sender
    disk,                 \* an EmulatedDir
    dlast,                \* the last Writer call on disk, and disk before it
    view,                 \* a Node's data_blob and data_view, and the DataNode last set
    sub,                  \* SourceDisk::subscribe: its position in the send loop
    storage,              \* the backend's Storage: the sled Db and the root it holds
    chan                  \* the disk source's channel: what was sent, buffered, received

\* What the WorldView owns, with the record of its last call.
world == <<transactions, nodes, edges, source_capabilities, source_store,
           source_update, source_root, sources, panicked, call, pre>>

\* What lives beside the WorldView.
aux == <<held, closed, disk, dlast, view, sub, storage, chan>>

\* The backend's store and the disk source's channel.
side == <<storage, chan>>

vars == <<transactions, nodes, edges, source_capabilities, source_store,
          source_update, source_root, sources, panicked, call, pre,
          held, closed, disk, dlast, view, sub, storage, chan>>

----------------------------------------------------------------------------
(* Bounds of the model. *)

\* The longest transactions log the model grows.
MaxLog == 3

\* The most transactions one add_transactions call or one bootstrap stream holds.
MaxBatch == 2

\* The longest log of the replay specification.
MaxReplayLog == 5

----------------------------------------------------------------------------
(* HashMap and Option helpers. *)

EmptyMap == [k \in {} |-> k]

Put(m, k, v) == [x \in (DOMAIN m) \cup {k} |-> IF x = k THEN v ELSE m[x]]

Remove(m, k) == [x \in (DOMAIN m) \ {k} |-> m[x]]

None == <<>>

Some(x) == <<x>>

Last(s) == s[Len(s)]

----------------------------------------------------------------------------
(* The data model: structs.rs. *)

NodeIDs == {"n1", "n2", "n3"}

EdgeIDs == {"e1"}

SourceIDs == {"s1", "s2"}

Timestamps == {1}

\* Either<ID, Create>: exactly one of the two options is Some.
Left(id) == [left |-> Some(id), right |-> None]

Right(c) == [left |-> None, right |-> Some(c)]

\* NodeUpdate, one shape for its six variants.
NodeUpdate(op, key, val, ver, nested) ==
    [op |-> op, key |-> key, val |-> val, ver |-> ver, nested |-> nested]

ULabel(l) == NodeUpdate("Label", "", l, 0, <<>>)

UData(b) == NodeUpdate("Data", "", b, 0, <<>>)

USetArgument(k, v) == NodeUpdate("SetArgument", k, v, 0, <<>>)

URemoveArgument(k) == NodeUpdate("RemoveArgument", k, "", 0, <<>>)

UMigrate(ver, nested) == NodeUpdate("Migrate", "", "", ver, nested)

UDelete == NodeUpdate("Delete", "", "", 0, <<>>)

\* EdgeAction: Edge::update treats every variant alike, the tag is all there is.
EdgeAction(op) == [op |-> op]

\* EdgeKind: the variant and the NodeIDs it names, in declaration order.
EdgeKind(type, ids) == [type |-> type, ids |-> ids]

Equality(ids) == EdgeKind("Equality", ids)

Definition(object, label) == EdgeKind("Definition", <<object, label>>)

Using(client, object) == EdgeKind("Using", <<client, object>>)

Contains(container, object) == EdgeKind("Contains", <<container, object>>)

RecordCUD(ent, base, updates) == [ent |-> ent, base |-> base, updates |-> updates]

RecordNode(base, updates) == RecordCUD("Node", base, updates)

RecordEdge(base, updates) == RecordCUD("Edge", base, updates)

RecordEvent(ts, r) == [ts |-> ts, rec |-> r]

Transaction(ts, records) == [timestamp |-> ts, records |-> records]

\* Node::label(label), with the id and the history the caller gives it.
Node_label(id, label, history) ==
    [id |-> id, kind |-> "Label", label |-> label, op_version |-> 0,
     data |-> "", edges |-> EmptyMap, arguments |-> EmptyMap,
     history |-> history]

\* Node::container(container), with the id and the history the caller gives it.
Node_container(id, history) ==
    [Node_label(id, "container", history) EXCEPT !.kind = "Container"]

\* An Edge value as Edge::contains builds it, for any kind.
Edge_new(id, kind, history) ==
    [id |-> id, kind |-> kind, validity |-> [type |-> "From", ts |-> 0],
     history |-> history]

\* RecordCUD::get_id
get_id(rc) ==
    IF rc.base.left # None THEN rc.base.left[1] ELSE rc.base.right[1].id

----------------------------------------------------------------------------
(* Entity update logic: impls.rs. *)

RECURSIVE Node_update(_, _), Node_update_all(_, _)

\* Node::update as it would be if a Label update also counted as a step of
\* the implementation version.
Node_update_label_bumps(node, update) ==
    CASE update.op = "Label" ->
            [node EXCEPT !.label = update.val, !.op_version = @ + 1]
      [] update.op = "Data" -> [node EXCEPT !.data = update.val]
      [] update.op = "SetArgument" ->
            [node EXCEPT !.arguments = Put(@, update.key, update.val)]
      [] update.op = "RemoveArgument" ->
            [node EXCEPT !.arguments = Remove(@, update.key)]
      [] update.op = "Migrate" ->
            Node_update_all([node EXCEPT !.op_version = update.ver], update.nested)
      [] update.op = "Delete" -> node

\* Node::update
Node_update(node, update) ==
    CASE update.op = "Label" -> [node EXCEPT !.label = update.val]
      [] update.op = "Data" -> [node EXCEPT !.data = update.val]
      [] update.op = "SetArgument" ->
            [node EXCEPT !.arguments = Put(@, update.key, update.val)]
      [] update.op = "RemoveArgument" ->
            [node EXCEPT !.arguments = Remove(@, update.key)]
      [] update.op = "Migrate" ->
            Node_update_all([node EXCEPT !.op_version = update.ver], update.nested)
      [] update.op = "Delete" -> node

\* for update in updates { self.update(update) }
Node_update_all(node, updates) ==
    IF updates = <<>> THEN node
    ELSE Node_update_all(Node_update(node, Head(updates)), Tail(updates))

\* Whether add_history takes its inner branch: there is a last entry and it
\* differs from the event.
history_accepts(history, re) ==
    history # <<>> /\ Last(history) # re

\* Node::add_history
Node_add_history(node, re) ==
    IF history_accepts(node.history, re)
    THEN LET pushed == [node EXCEPT !.history = Append(@, re)]
         IN  IF re.rec.ent = "Node"
             THEN Node_update_all(pushed, re.rec.updates)
             ELSE pushed
    ELSE node

\* Edge::update is todo!(): it panics whatever the action.
Edge_update_panics(update) == TRUE

\* Edge::add_history. The result is the edge and whether Edge::update panicked
\* (after the event was pushed).
Edge_add_history(edge, re) ==
    IF history_accepts(edge.history, re)
    THEN [edge |-> [edge EXCEPT !.history = Append(@, re)],
          panicked |-> /\ re.rec.ent = "Edge"
                       /\ \E i \in 1..Len(re.rec.updates) :
                              Edge_update_panics(re.rec.updates[i])]
    ELSE [edge |-> edge, panicked |-> FALSE]

----------------------------------------------------------------------------
(* The aggregator: worldview.rs. *)

\* The match on edge.kind that heads remove_edge_from_nodes and
\* apply_edge_to_nodes: None stands for the todo!() of Equality.
edge_nodes(kind) ==
    IF kind.type = "Equality" THEN None ELSE Some(kind.ids)

RECURSIVE remove_each(_, _, _, _)
\* The loop body of remove_edge_from_nodes over the nodes still to visit.
remove_each(ns, ids, re, edge) ==
    IF ids = <<>> THEN ns
    ELSE LET n == Head(ids)
             ns1 == IF n \in DOMAIN ns
                    THEN [ns EXCEPT ![n] = [@ EXCEPT !.edges = Remove(@, edge.id),
                                                      !.history = Append(@, re)]]
                    ELSE ns
         IN  remove_each(ns1, Tail(ids), re, edge)

\* WorldView::remove_edge_from_nodes: the nodes table afterwards, and whether
\* it panicked.
remove_edge_from_nodes(ns, re, edge) ==
    LET ids == edge_nodes(edge.kind)
    IN  IF ids = None THEN [nodes |-> ns, panicked |-> TRUE]
        ELSE [nodes |-> remove_each(ns, ids[1], re, edge), panicked |-> FALSE]

\* apply_each as it would be if only the first participant were visited.
apply_each_first(ns, ids, re, edge) ==
    IF ids = <<>> THEN ns
    ELSE LET n == Head(ids)
         IN  IF n \in DOMAIN ns
             THEN [ns EXCEPT ![n] =
                     [@ EXCEPT !.edges = Put(@, edge.id, edge.kind),
                               !.history = IF history_accepts(@, re)
                                           THEN Append(@, re) ELSE @]]
             ELSE ns

RECURSIVE apply_each(_, _, _, _)
\* The loop body of apply_edge_to_nodes over the nodes still to visit.
apply_each(ns, ids, re, edge) ==
    IF ids = <<>> THEN ns
    ELSE LET n == Head(ids)
             ns1 == IF n \in DOMAIN ns
                    THEN [ns EXCEPT ![n] =
                            [@ EXCEPT !.edges = Put(@, edge.id, edge.kind),
                                      !.history = IF history_accepts(@, re)
                                                  THEN Append(@, re) ELSE @]]
                    ELSE ns
         IN  apply_each(ns1, Tail(ids), re, edge)

\* WorldView::apply_edge_to_nodes
apply_edge_to_nodes(ns, re, edge) ==
    LET ids == edge_nodes(edge.kind)
    IN  IF ids = None THEN [nodes |-> ns, panicked |-> TRUE]
        ELSE [nodes |-> apply_each(ns, ids[1], re, edge), panicked |-> FALSE]

\* The part of the WorldView do_tx works on, with the two lists it returns.
TxState(ns, es, log) ==
    [nodes |-> ns, edges |-> es, transactions |-> log,
     nids |-> <<>>, eids |-> <<>>, panicked |-> FALSE]

\* do_node_record as it would be if a missing target were created instead of
\* dropped (an upsert).
do_node_record_upsert(st, rc, rec_event) ==
    LET st1 == [st EXCEPT !.nids = Append(@, get_id(rc))]
        node == IF rc.base.left # None
                THEN IF rc.base.left[1] \in DOMAIN st1.nodes
                     THEN st1.nodes[rc.base.left[1]]
                     ELSE Node_label(rc.base.left[1], "", <<>>)
                ELSE rc.base.right[1]
        done == Node_add_history(node, rec_event)
    IN  [st1 EXCEPT !.nodes = Put(@, done.id, done)]

\* do_node_record as it would be if a record carrying NodeUpdate::Delete took
\* the node out of the table.
do_node_record_delete(st, rc, rec_event) ==
    LET st1 == [st EXCEPT !.nids = Append(@, get_id(rc))]
        deletes == \E i \in 1..Len(rc.updates) : rc.updates[i].op = "Delete"
    IN  IF rc.base.left # None
        THEN LET id == rc.base.left[1]
             IN  IF id \in DOMAIN st1.nodes
                 THEN IF deletes
                      THEN [st1 EXCEPT !.nodes = [k \in DOMAIN @ \ {id} |-> @[k]]]
                      ELSE [st1 EXCEPT !.nodes[id] = Node_add_history(@, rec_event)]
                 ELSE st1
        ELSE LET node == Node_add_history(rc.base.right[1], rec_event)
             IN  [st1 EXCEPT !.nodes = Put(@, node.id, node)]

\* do_tx, Record::Node arm.
do_node_record(st, rc, rec_event) ==
    LET st1 == [st EXCEPT !.nids = Append(@, get_id(rc))]
    IN  IF rc.base.left # None
        THEN LET id == rc.base.left[1]
             IN  IF id \in DOMAIN st1.nodes
                 THEN [st1 EXCEPT !.nodes[id] = Node_add_history(@, rec_event)]
                 ELSE st1
        ELSE LET node == Node_add_history(rc.base.right[1], rec_event)
             IN  [st1 EXCEPT !.nodes = Put(@, node.id, node)]

\* do_tx, Record::Edge arm, base a full Edge (also the tail of the ID arm):
\* add_history, apply_edge_to_nodes, insert.
store_edge(st, edge0, rec_event) ==
    LET hist == Edge_add_history(edge0, rec_event)
        edge == hist.edge
        app  == apply_edge_to_nodes(st.nodes, rec_event, edge)
    IN  IF hist.panicked THEN [st EXCEPT !.panicked = TRUE]
        ELSE IF app.panicked THEN [st EXCEPT !.panicked = TRUE]
        ELSE [st EXCEPT !.nodes = app.nodes,
                        !.edges = Put(@, edge.id, edge)]

\* do_tx, Record::Edge arm.
do_edge_record(st, rc, rec_event) ==
    LET st1 == [st EXCEPT !.eids = Append(@, get_id(rc))]
    IN  IF rc.base.left # None
        THEN LET id == rc.base.left[1]
             IN  IF id \in DOMAIN st1.edges
                 THEN LET rem == remove_edge_from_nodes(st1.nodes, rec_event,
                                                        st1.edges[id])
                      IN  IF rem.panicked THEN [st1 EXCEPT !.panicked = TRUE]
                          ELSE store_edge([st1 EXCEPT !.nodes = rem.nodes],
                                          st1.edges[id], rec_event)
                 ELSE st1
        ELSE store_edge(st1, rc.base.right[1], rec_event)

RECURSIVE do_records(_, _, _)
\* do_tx: for r in tx.records; a panic ends the loop where it is.
do_records(st, ts, records) ==
    IF records = <<>> \/ st.panicked THEN st
    ELSE LET r == Head(records)
             rec_event == RecordEvent(ts, r)
             st1 == IF r.ent = "Node" THEN do_node_record(st, r, rec_event)
                    ELSE do_edge_record(st, r, rec_event)
         IN  do_records(st1, ts, Tail(records))

\* do_tx as it would be if the newest transaction were put at the head of
\* the log.
do_tx_front(st, tx) ==
    do_records([st EXCEPT !.transactions = <<tx>> \o @],
               tx.timestamp, tx.records)

\* WorldView::do_tx: the log is pushed first, the lists returned are nids, eids.
do_tx(st, tx) ==
    do_records([st EXCEPT !.transactions = Append(@, tx)],
               tx.timestamp, tx.records)

RECURSIVE do_txs(_, _)
\* for tx in txs { self.do_tx(tx) }: the lists of each call are appended.
do_txs(st, txs) ==
    IF txs = <<>> \/ st.panicked THEN st
    ELSE do_txs(do_tx(st, Head(txs)), Tail(txs))

\* get_node as it would be if a missing id were answered with a blank Node.
get_node_or_blank(id) ==
    IF id \in DOMAIN nodes THEN Some(nodes[id]) ELSE Some(Node_label(id, "", <<>>))

\* WorldView::get_node
get_node(id) == IF id \in DOMAIN nodes THEN Some(nodes[id]) ELSE None

\* WorldView::get_edge
get_edge(id) == IF id \in DOMAIN edges THEN Some(edges[id]) ELSE None

----------------------------------------------------------------------------
(* The transactions the sources and the callers hand in. *)

\* An event an entity may already carry when its payload arrives.
SeedEvent(ent, id) == RecordEvent(0, RecordCUD(ent, Left(id), <<>>))

\* Create payloads: every node fresh from Node::label, and one that arrives
\* with a history.
NodePayloads ==
    {Node_label(id, "A", <<>>) : id \in NodeIDs} \cup
    {Node_label("n1", "A", <<SeedEvent("Node", "n1")>>)}

\* One edge of every kind, over three nodes so that a change of kind drops a
\* participant (n1 or n3) and keeps another (n2).
EdgeKinds ==
    {Contains("n1", "n2"), Using("n3", "n2"), Definition("n1", "n3"),
     Equality(<<"n1", "n2">>)}

\* Create payloads: an edge of every kind fresh from its constructor, and one
\* that arrives with a history.
EdgePayloads ==
    {Edge_new(id, k, <<>>) : id \in EdgeIDs, k \in EdgeKinds} \cup
    {Edge_new(id, Contains("n1", "n2"), <<SeedEvent("Edge", id)>>) : id \in EdgeIDs}

Records ==
    {RecordNode(Right(n), <<>>) : n \in NodePayloads} \cup
    {RecordNode(Left(id), <<ULabel("B")>>) : id \in {"n1", "n2"}} \cup
    {RecordEdge(Right(e), <<>>) : e \in EdgePayloads} \cup
    {RecordEdge(Left(id), us) : id \in EdgeIDs,
                                us \in {<<>>, <<EdgeAction("Delete")>>}}

\* The transactions of the main specification, one record each.
TxPool == {Transaction(ts, <<r>>) : ts \in Timestamps, r \in Records}

\* The sequences of 0..n transactions of pool.
TxLists(pool, n) ==
    UNION {[1..k -> pool] : k \in 0..n}

Min(a, b) == IF a <= b THEN a ELSE b

----------------------------------------------------------------------------
(* The public interface of the WorldView. *)

Call(op, sid, txs, ok, root, nids, eids) ==
    [op |-> op, sid |-> sid, txs |-> txs, ok |-> ok, root |-> root,
     nids |-> nids, eids |-> eids]

Snapshot ==
    [transactions |-> transactions, nodes |-> nodes, edges |-> edges,
     source_capabilities |-> source_capabilities, source_store |-> source_store,
     source_update |-> source_update, source_root |-> source_root,
     sources |-> sources]

\* SourceCapabilities as SourceDisk::capabilities answers, for the id given.
Capabilities(sid) ==
    [id |-> sid, auto_fetch |-> TRUE, accepts_txs |-> FALSE, can_search |-> FALSE]

\* EmulatedDir::new
EmulatedDir_new == [files |-> EmptyMap, dirs |-> EmptyMap]

\* A DataView: an index into data_blob, an optional child and sibling.
DataView(index, child, sibling) ==
    [index |-> index, child |-> child, sibling |-> sibling]

\* Node::init: data_blob holds one empty text at index 0, data_view points
\* at it. set is the DataNode last handed to view_data_node_set, if any.
ViewInit ==
    [data_blob |-> [i \in {0} |-> ""], data_view |-> DataView(0, None, None),
     set |-> None]

\* No subscribe under way.
SubIdle == [running |-> FALSE, returned |-> FALSE, todo |-> 0, buffered |-> 0]

\* The sled database before the backend first ran: no key at all.
StorageInit == [db |-> EmptyMap, open |-> FALSE, root |-> None, failed |-> FALSE]

\* No channel of a disk source yet.
ChanIdle ==
    [running |-> FALSE, returned |-> FALSE, todo |-> <<>>, buf |-> <<>>,
     got |-> <<>>, sent |-> 0]

\* WorldView::new, beside a fresh EmulatedDir and a fresh Node.
Init ==
    /\ transactions = <<>>
    /\ nodes = EmptyMap
    /\ edges = EmptyMap
    /\ source_capabilities = EmptyMap
    /\ source_store = EmptyMap
    /\ source_update = EmptyMap
    /\ source_root = EmptyMap
    /\ sources = {}
    /\ panicked = FALSE
    /\ call = Call("new", "", <<>>, TRUE, None, <<>>, <<>>)
    /\ pre = [transactions |-> <<>>, nodes |-> EmptyMap, edges |-> EmptyMap,
              source_capabilities |-> EmptyMap, source_store |-> EmptyMap,
              source_update |-> EmptyMap, source_root |-> EmptyMap,
              sources |-> {}]
    /\ held = None
    /\ closed = {}
    /\ disk = EmulatedDir_new
    /\ dlast = [op |-> "new", path |-> <<>>, content |-> "", ok |-> TRUE,
                pre |-> EmulatedDir_new]
    /\ view = ViewInit
    /\ sub = SubIdle
    /\ storage = StorageInit
    /\ chan = ChanIdle

RECURSIVE Reverse(_)
\* The sequence s read backwards.
Reverse(s) == IF s = <<>> THEN <<>> ELSE Append(Reverse(Tail(s)), Head(s))

\* fetch as it would be if the drained list were applied newest first.
fetch_lifo(updates, id, st) ==
    IF id \in DOMAIN updates
    THEN [ok |-> TRUE, txs |-> Reverse(updates[id]),
          updates |-> [updates EXCEPT ![id] = <<>>],
          st |-> do_txs(st, Reverse(updates[id]))]
    ELSE [ok |-> FALSE, txs |-> <<>>, updates |-> updates, st |-> st]

\* fetch as it would be with one recv instead of the try_recv loop: at most
\* one transaction leaves the channel.
fetch_first(updates, id, st) ==
    IF id \in DOMAIN updates
    THEN LET got == SubSeq(updates[id], 1, Min(1, Len(updates[id])))
         IN  [ok |-> TRUE, txs |-> got,
              updates |-> [updates EXCEPT ![id] =
                              SubSeq(@, Len(got) + 1, Len(@))],
              st |-> do_txs(st, got)]
    ELSE [ok |-> FALSE, txs |-> <<>>, updates |-> updates, st |-> st]

\* fetch as it would be if reading did not consume: the channel keeps what
\* was drained.
fetch_peek(updates, id, st) ==
    IF id \in DOMAIN updates
    THEN [ok |-> TRUE, txs |-> updates[id], updates |-> updates,
          st |-> do_txs(st, updates[id])]
    ELSE [ok |-> FALSE, txs |-> <<>>, updates |-> updates, st |-> st]

\* fetch as it would be if a channel whose Sender is gone were reported as an
\* error instead of read to its end.
fetch_closed_fails(updates, id, st) ==
    IF id \in DOMAIN updates /\ id \notin closed
    THEN [ok |-> TRUE, txs |-> updates[id],
          updates |-> [updates EXCEPT ![id] = <<>>],
          st |-> do_txs(st, updates[id])]
    ELSE [ok |-> FALSE, txs |-> <<>>, updates |-> updates, st |-> st]

\* WorldView::fetch: drain the outbound channel of source id with try_recv,
\* then do_tx each transaction drained. ok is FALSE for an unknown source.
fetch(updates, id, st) ==
    IF id \in DOMAIN updates
    THEN [ok |-> TRUE, txs |-> updates[id],
          updates |-> [updates EXCEPT ![id] = <<>>],
          st |-> do_txs(st, updates[id])]
    ELSE [ok |-> FALSE, txs |-> <<>>, updates |-> updates, st |-> st]

\* add_source as it would be if the root were one slot shared by the sources:
\* a successful bootstrap records its root for every source known so far.
add_source_shared_root(sid, stream) ==
    LET subscribed == Put(source_update, sid, stream)
        f == fetch(subscribed, sid, TxState(nodes, edges, transactions))
        st == f.st
    IN  /\ pre' = Snapshot
        /\ source_store' = Put(source_store, sid, <<>>)
        /\ source_update' = f.updates
        /\ sources' = sources \cup {sid}
        /\ source_capabilities' = Put(source_capabilities, sid, Capabilities(sid))
        /\ nodes' = st.nodes
        /\ edges' = st.edges
        /\ panicked' = st.panicked
        /\ IF ~st.panicked /\ st.nids # <<>>
           THEN /\ source_root' = [s \in DOMAIN source_root \cup {sid} |->
                                      st.nids[1]]
                /\ transactions' = st.transactions \o f.txs
                /\ call' = Call("add_source", sid, stream, TRUE,
                                Some(st.nids[1]), st.nids, st.eids)
           ELSE /\ source_root' = source_root
                /\ transactions' = st.transactions
                /\ call' = Call("add_source", sid, stream, FALSE, None,
                                st.nids, st.eids)

\* WorldView::add_source, for a source that answers capabilities() with id sid
\* and whose subscribe() returns a channel holding stream.
add_source(sid, stream) ==
    LET subscribed == Put(source_update, sid, stream)
        f == fetch(subscribed, sid, TxState(nodes, edges, transactions))
        st == f.st
    IN  /\ pre' = Snapshot
        /\ source_store' = Put(source_store, sid, <<>>)
        /\ source_update' = f.updates
        /\ sources' = sources \cup {sid}
        /\ source_capabilities' = Put(source_capabilities, sid, Capabilities(sid))
        /\ nodes' = st.nodes
        /\ edges' = st.edges
        /\ panicked' = st.panicked
        /\ IF ~st.panicked /\ st.nids # <<>>
           THEN /\ source_root' = Put(source_root, sid, st.nids[1])
                /\ transactions' = st.transactions \o f.txs
                /\ call' = Call("add_source", sid, stream, TRUE,
                                Some(st.nids[1]), st.nids, st.eids)
           ELSE /\ source_root' = source_root
                /\ transactions' = st.transactions
                /\ call' = Call("add_source", sid, stream, FALSE, None,
                                st.nids, st.eids)

\* WorldView::add_transactions
add_transactions(sid, txs) ==
    LET st == do_txs(TxState(nodes, edges, transactions), txs)
    IN  /\ pre' = Snapshot
        /\ nodes' = st.nodes
        /\ edges' = st.edges
        /\ transactions' = st.transactions
        /\ panicked' = st.panicked
        /\ call' = Call("add_transactions", sid, txs, TRUE, None, st.nids, st.eids)
        /\ UNCHANGED <<source_capabilities, source_store, source_update,
                       source_root, sources>>

\* How many more log entries the model lets a call add.
Room(maxlog) == maxlog - Len(transactions)

\* A call of add_source: a successful one logs every transaction twice.
AddSourceOf(sids, pool, maxlog) ==
    /\ ~panicked
    /\ \E sid \in sids :
       \E stream \in TxLists(pool, Min(MaxBatch, Room(maxlog) \div 2)) :
          add_source(sid, stream)
    /\ UNCHANGED aux

\* A call of add_transactions with at least one transaction.
AddTransactionsOf(sids, pool, maxlog) ==
    /\ ~panicked
    /\ \E sid \in sids :
       \E txs \in TxLists(pool, Min(MaxBatch, Room(maxlog))) \ {<<>>} :
          add_transactions(sid, txs)
    /\ UNCHANGED aux

\* The main specification: one source, the whole pool.
MainSources == {"s1"}

AddSource == AddSourceOf(MainSources, TxPool, MaxLog)

AddTransactions == AddTransactionsOf(MainSources, TxPool, MaxLog)

Next == AddSource \/ AddTransactions

Spec == Init /\ [][Next]_vars

\* The replay specification: a longer log over a few transactions on one node
\* and one edge, so that a bootstrap stream of two updates fits.
ReplayPool ==
    {Transaction(1, <<RecordNode(Right(Node_label("n1", "A",
                                        <<SeedEvent("Node", "n1")>>)), <<>>)>>),
     Transaction(1, <<RecordNode(Left("n1"), <<ULabel("B")>>)>>),
     Transaction(1, <<RecordNode(Left("n1"), <<ULabel("A")>>)>>),
     Transaction(1, <<RecordEdge(Right(Edge_new("e1", Contains("n1", "n2"), <<>>)),
                                 <<>>)>>),
     Transaction(1, <<RecordEdge(Left("e1"), <<>>)>>)}

AddSourceReplay == AddSourceOf(MainSources, ReplayPool, MaxReplayLog)

AddTransactionsReplay == AddTransactionsOf(MainSources, ReplayPool, MaxReplayLog)

NextReplay == AddSourceReplay \/ AddTransactionsReplay

SpecReplay == Init /\ [][NextReplay]_vars

\* The repetition specification: entities that all start with an empty
\* history, and an ID-only update of the edge that can be observed again.
FreshPool ==
    {Transaction(1, <<RecordNode(Right(Node_label("n1", "A", <<>>)), <<>>)>>),
     Transaction(1, <<RecordEdge(Right(Edge_new("e1", Contains("n1", "n2"), <<>>)),
                                 <<>>)>>),
     Transaction(1, <<RecordEdge(Left("e1"), <<>>)>>)}

AddSourceFresh == AddSourceOf(MainSources, FreshPool, MaxReplayLog)

AddTransactionsFresh == AddTransactionsOf(MainSources, FreshPool, MaxReplayLog)

NextFresh == AddSourceFresh \/ AddTransactionsFresh

SpecFresh == Init /\ [][NextFresh]_vars

\* get_node as it would be if it took the Node out of the table
\* (HashMap::remove) to hand it over.
GetNodeTake ==
    /\ ~panicked
    /\ \E id \in NodeIDs :
          /\ held' = Some([ent |-> "Node", id |-> id, val |-> get_node(id)])
          /\ nodes' = [k \in DOMAIN nodes \ {id} |-> nodes[k]]
    /\ pre' = Snapshot
    /\ call' = Call("get_node", "", <<>>, TRUE, None, <<>>, <<>>)
    /\ UNCHANGED <<transactions, edges, source_capabilities, source_store,
                   source_update, source_root, sources, panicked>>
    /\ UNCHANGED <<closed, disk, dlast, view, sub>>
    /\ UNCHANGED side

\* A caller of get_node keeps the copy it was handed.
GetNode ==
    /\ ~panicked
    /\ \E id \in NodeIDs :
          held' = Some([ent |-> "Node", id |-> id, val |-> get_node(id)])
    /\ pre' = Snapshot
    /\ call' = Call("get_node", "", <<>>, TRUE, None, <<>>, <<>>)
    /\ UNCHANGED <<transactions, nodes, edges, source_capabilities, source_store,
                   source_update, source_root, sources, panicked>>
    /\ UNCHANGED <<closed, disk, dlast, view, sub>>
    /\ UNCHANGED side

\* A caller of get_edge keeps the copy it was handed.
GetEdge ==
    /\ ~panicked
    /\ \E id \in EdgeIDs :
          held' = Some([ent |-> "Edge", id |-> id, val |-> get_edge(id)])
    /\ pre' = Snapshot
    /\ call' = Call("get_edge", "", <<>>, TRUE, None, <<>>, <<>>)
    /\ UNCHANGED <<transactions, nodes, edges, source_capabilities, source_store,
                   source_update, source_root, sources, panicked>>
    /\ UNCHANGED <<closed, disk, dlast, view, sub>>
    /\ UNCHANGED side

AddSourceGet == AddSourceOf(MainSources, FreshPool, MaxLog)

AddTransactionsGet == AddTransactionsOf(MainSources, FreshPool, MaxLog)

\* The lookup specification: transactions over fresh entities, and lookups
\* between them.
NextGet == AddSourceGet \/ AddTransactionsGet \/ GetNode \/ GetEdge

SpecGet == Init /\ [][NextGet]_vars

\* The version specification: one node that arrives with a history, so that
\* updates by ID are applied to it, updated by Label, Delete and Migrate, and
\* one edge.
VersionPool ==
    {Transaction(1, <<RecordNode(Right(Node_label("n1", "A",
                                        <<SeedEvent("Node", "n1")>>)), <<>>)>>),
     Transaction(1, <<RecordNode(Left("n1"), <<UDelete>>)>>),
     Transaction(1, <<RecordNode(Left("n1"), <<ULabel("C")>>)>>),
     Transaction(1, <<RecordNode(Left("n1"), <<UMigrate(2, <<ULabel("B")>>)>>)>>),
     Transaction(1, <<RecordNode(Left("n1"), <<UMigrate(1, <<>>)>>)>>),
     Transaction(1, <<RecordEdge(Right(Edge_new("e1", Contains("n1", "n2"), <<>>)),
                                 <<>>)>>)}

AddSourceVersion == AddSourceOf(MainSources, VersionPool, MaxLog)

AddTransactionsVersion == AddTransactionsOf(MainSources, VersionPool, MaxLog)

NextVersion == AddSourceVersion \/ AddTransactionsVersion

SpecVersion == Init /\ [][NextVersion]_vars

\* The kind specification: two Create payloads of different kinds that carry
\* the same NodeID, updates by ID of that node, and one edge naming it.
KindPool ==
    {Transaction(1, <<RecordNode(Right(Node_label("n1", "A",
                                        <<SeedEvent("Node", "n1")>>)), <<>>)>>),
     Transaction(1, <<RecordNode(Right(Node_container("n1",
                                        <<SeedEvent("Node", "n1")>>)), <<>>)>>),
     Transaction(1, <<RecordNode(Left("n1"), <<ULabel("B")>>)>>),
     Transaction(1, <<RecordNode(Left("n1"), <<UMigrate(1, <<UData("d")>>)>>)>>),
     Transaction(1, <<RecordEdge(Right(Edge_new("e1", Contains("n1", "n2"), <<>>)),
                                 <<>>)>>)}

AddSourceKind == AddSourceOf(MainSources, KindPool, MaxLog)

AddTransactionsKind == AddTransactionsOf(MainSources, KindPool, MaxLog)

NextKind == AddSourceKind \/ AddTransactionsKind

SpecKind == Init /\ [][NextKind]_vars

----------------------------------------------------------------------------
(* Sources that keep emitting: the stream specification. *)

\* How many transactions the model lets wait in one outbound channel.
MaxPending == 2

\* How long the log may grow in the stream specification.
MaxStreamLog == 4

\* What bootstraps and callers hand in: a node fresh from Node::label created
\* with an embedded update, and a node arriving with a history.
StreamPool ==
    {Transaction(1, <<RecordNode(Right(Node_label("n1", "A", <<>>)),
                                 <<ULabel("B")>>)>>),
     Transaction(1, <<RecordNode(Right(Node_label("n2", "A",
                                        <<SeedEvent("Node", "n2")>>)), <<>>)>>)}

\* What a producer sends after its bootstrap: a node and an update of it, so
\* that the order of the two shows in the label.
EmitPool ==
    {Transaction(1, <<RecordNode(Right(Node_label("n2", "A",
                                        <<SeedEvent("Node", "n2")>>)), <<>>)>>),
     Transaction(1, <<RecordNode(Left("n2"), <<ULabel("B")>>)>>)}

\* add_source of a source not seen before: SourceDisk::capabilities draws a
\* fresh SourceID at every call.
AddSourceStream ==
    /\ ~panicked
    /\ \E sid \in SourceIDs \ sources :
       \E stream \in TxLists(StreamPool,
                             Min(MaxBatch, Room(MaxStreamLog) \div 2)) :
          add_source(sid, stream)
    /\ UNCHANGED aux

\* add_transactions for either source, with one transaction or with none: the
\* empty call is one the callers can repeat for ever.
AddTransactionsStream ==
    /\ ~panicked
    /\ \E sid \in SourceIDs :
       \E txs \in TxLists(StreamPool, Min(1, Room(MaxStreamLog))) :
          add_transactions(sid, txs)
    /\ UNCHANGED aux

\* The producer of a registered source sends one more transaction on the
\* Sender whose Receiver subscribe() returned; the channel is FIFO and bounded.
Emit ==
    /\ ~panicked
    /\ UNCHANGED aux
    /\ \E sid \in DOMAIN source_update \ closed :
       \E tx \in EmitPool :
          /\ Len(source_update[sid]) < MaxPending
          /\ source_update' = [source_update EXCEPT ![sid] = Append(@, tx)]
          /\ pre' = Snapshot
          /\ call' = Call("emit", sid, <<tx>>, TRUE, None, <<>>, <<>>)
          /\ UNCHANGED <<transactions, nodes, edges, source_capabilities,
                         source_store, source_root, sources, panicked>>

NextStream == AddSourceStream \/ AddTransactionsStream \/ Emit

\* add_source of a source that, like SourceDisk, sends its bootstrap inside
\* subscribe() and drops the Sender when subscribe() returns: the channel is
\* closed before the first drain.
AddSourceClosed ==
    /\ ~panicked
    /\ \E sid \in SourceIDs \ sources :
       \E stream \in TxLists(StreamPool,
                             Min(MaxBatch, Room(MaxStreamLog) \div 2)) :
          /\ add_source(sid, stream)
          /\ closed' = closed \cup {sid}
    /\ UNCHANGED <<held, disk, dlast, view, sub>>
    /\ UNCHANGED side

\* The producer of a registered source ends: its Sender is dropped, what it
\* sent before stays buffered.
Close ==
    /\ ~panicked
    /\ \E sid \in DOMAIN source_update \ closed :
          /\ closed' = closed \cup {sid}
          /\ call' = Call("close", sid, <<>>, TRUE, None, <<>>, <<>>)
    /\ pre' = Snapshot
    /\ UNCHANGED <<transactions, nodes, edges, source_capabilities, source_store,
                   source_update, source_root, sources, panicked>>
    /\ UNCHANGED <<held, disk, dlast, view, sub>>
    /\ UNCHANGED side

\* The closing specification: sources that stay open, sources that close at
\* once and sources that close later.
NextClose == AddSourceStream \/ AddSourceClosed \/ Emit \/ Close

SpecClose == Init /\ [][NextClose]_vars

SpecStream == Init /\ [][NextStream]_vars

\* The same, with an aggregator whose callers keep calling and sources that
\* keep sending while they can.
SpecStreamFair ==
    SpecStream /\ WF_vars(AddSourceStream) /\ WF_vars(AddTransactionsStream)
               /\ WF_vars(Emit)

----------------------------------------------------------------------------
(* The emulated directory: storage/dir_trait.rs. *)

\* The longest path the model writes to.
MaxPath == 2

\* File names, in the order String compares them.
FileNames == <<"a", "notes.md">>

\* Directory names.
DirNames == <<"a">>

\* The elements of the sequence s.
Range(s) == {s[i] : i \in 1..Len(s)}

\* What callers write.
Contents == {"x", "y"}

\* The paths callers hand in: the empty path, and directories followed by a
\* file name.
Paths ==
    {<<>>} \cup
    UNION {{d \o <<f>> : d \in [1..k -> Range(DirNames)], f \in Range(FileNames)}
           : k \in 0..(MaxPath - 1)}

RECURSIVE write_file_over(_, _, _)
\* write_file as it would be if an existing file were overwritten.
write_file_over(dir, path, content) ==
    IF path = <<>> THEN [ok |-> FALSE, dir |-> dir]
    ELSE IF Len(path) = 1
    THEN [ok |-> TRUE, dir |-> [dir EXCEPT !.files = Put(@, path[1], content)]]
    ELSE LET sub0 == IF path[1] \in DOMAIN dir.dirs THEN dir.dirs[path[1]]
                     ELSE EmulatedDir_new
             r == write_file_over(sub0, Tail(path), content)
         IN  [ok |-> r.ok, dir |-> [dir EXCEPT !.dirs = Put(@, path[1], r.dir)]]

RECURSIVE write_file(_, _, _)
\* EmulatedDir::write_file: whether it returned Ok, and the directory
\* afterwards (entry().or_insert_with() creates the directories on the way).
write_file(dir, path, content) ==
    IF path = <<>> THEN [ok |-> FALSE, dir |-> dir]
    ELSE IF Len(path) = 1
    THEN IF path[1] \in DOMAIN dir.files
         THEN [ok |-> FALSE, dir |-> dir]
         ELSE [ok |-> TRUE,
               dir |-> [dir EXCEPT !.files = Put(@, path[1], content)]]
    ELSE LET sub0 == IF path[1] \in DOMAIN dir.dirs THEN dir.dirs[path[1]]
                     ELSE EmulatedDir_new
             r == write_file(sub0, Tail(path), content)
         IN  [ok |-> r.ok, dir |-> [dir EXCEPT !.dirs = Put(@, path[1], r.dir)]]

RECURSIVE read_file(_, _)
\* EmulatedDir::read_file, for a path that is not empty.
read_file(dir, path) ==
    IF Len(path) > 1
    THEN IF path[1] \in DOMAIN dir.dirs
         THEN read_file(dir.dirs[path[1]], Tail(path))
         ELSE [ok |-> FALSE, content |-> ""]
    ELSE IF path[1] \in DOMAIN dir.files
         THEN [ok |-> TRUE, content |-> dir.files[path[1]]]
         ELSE [ok |-> FALSE, content |-> ""]

\* A DirectoryEntry.
DirectoryEntry(type, name) == [type |-> type, name |-> name]

\* The names of order that are in S, as a sequence in that order.
Sorted(order, S) == SelectSeq(order, LAMBDA n : n \in S)

\* The sequence of f(s[i]).
MapSeq(f(_), s) == [i \in 1..Len(s) |-> f(s[i])]

RECURSIVE read_directory(_, _)
\* EmulatedDir::read_directory: the entries sorted, directories before files.
read_directory(dir, path) ==
    IF path = <<>>
    THEN LET D(n) == DirectoryEntry("Directory", n)
             F(n) == DirectoryEntry("File", n)
         IN  [ok |-> TRUE,
              entries |-> MapSeq(D, Sorted(DirNames, DOMAIN dir.dirs)) \o
                          MapSeq(F, Sorted(FileNames, DOMAIN dir.files))]
    ELSE IF path[1] \in DOMAIN dir.dirs
         THEN read_directory(dir.dirs[path[1]], Tail(path))
         ELSE [ok |-> FALSE, entries |-> <<>>]

\* A call of write_file on the directory, before it is handed to a source
\* (SourceDisk::new takes the directory over).
WriteFile ==
    /\ sources = {}
    /\ \E path \in Paths : \E content \in Contents :
          LET r == write_file(disk, path, content)
          IN  /\ disk' = r.dir
              /\ dlast' = [op |-> "write_file", path |-> path,
                           content |-> content, ok |-> r.ok, pre |-> disk]
    /\ pre' = Snapshot
    /\ call' = Call("write_file", "", <<>>, TRUE, None, <<>>, <<>>)
    /\ UNCHANGED <<transactions, nodes, edges, source_capabilities, source_store,
                   source_update, source_root, sources, panicked>>
    /\ UNCHANGED <<held, closed, view, sub>>
    /\ UNCHANGED side

----------------------------------------------------------------------------
(* The disk source: storage/disk.rs. *)

\* The id of the Node::label("root") subscribe() makes; NodeID::rnd() and
\* EdgeID::rnd() are modelled by ids that name the entry they were drawn for.
RootId == <<"root">>

\* name.ends_with(".md")
IsMarkdown(name) == name = "notes.md"

\* The two transactions read_dir pushes for a regular file or a directory:
\* the creation of its node, and of a Definition edge from it to the parent.
entry_txs(id, label, data, parent) ==
    <<Transaction(1, <<RecordNode(Right([Node_label(id, label, <<>>)
                                            EXCEPT !.kind = "Container",
                                                   !.data = data]), <<>>)>>),
      Transaction(1, <<RecordEdge(Right(Edge_new(<<"edge">> \o id,
                                                 Definition(id, parent), <<>>)),
                                  <<>>)>>)>>

RECURSIVE read_dir(_, _, _), read_entries(_, _, _, _)
\* SourceDisk::read_dir, the loop over the entries still to visit. A file's
\* content is read with read_file(&[name]); a markdown file goes to
\* process_markdown, which returns no transactions.
read_entries(dir, parent, path, entries) ==
    IF entries = <<>> THEN [ok |-> TRUE, txs |-> <<>>]
    ELSE LET e == Head(entries)
             this ==
               IF e.type = "File"
               THEN LET c == read_file(dir, <<e.name>>)
                    IN  IF ~c.ok THEN [ok |-> FALSE, txs |-> <<>>]
                        ELSE IF IsMarkdown(e.name) THEN [ok |-> TRUE, txs |-> <<>>]
                        ELSE [ok |-> TRUE,
                              txs |-> entry_txs(<<"file">> \o path \o <<e.name>>,
                                                e.name, c.content, parent)]
               ELSE LET id == <<"dir">> \o path \o <<e.name>>
                        below == read_dir(dir, id, path \o <<e.name>>)
                    IN  IF ~below.ok THEN [ok |-> FALSE, txs |-> <<>>]
                        ELSE [ok |-> TRUE,
                              txs |-> entry_txs(id, e.name, "", parent) \o
                                      below.txs]
             rest == read_entries(dir, parent, path, Tail(entries))
         IN  IF ~this.ok \/ ~rest.ok THEN [ok |-> FALSE, txs |-> <<>>]
             ELSE [ok |-> TRUE, txs |-> this.txs \o rest.txs]

\* SourceDisk::read_dir
read_dir(dir, parent, path) ==
    LET listing == read_directory(dir, path)
    IN  IF ~listing.ok THEN [ok |-> FALSE, txs |-> <<>>]
        ELSE read_entries(dir, parent, path, listing.entries)

\* add_source(Box::new(SourceDisk::new(disk))): subscribe() sends what
\* read_dir returns under a fresh root label; when read_dir fails, subscribe
\* fails and add_source returns its error before it touched anything.
AddSourceDisk ==
    /\ ~panicked
    /\ sources = {}
    /\ LET rd == read_dir(disk, RootId, <<>>)
       IN  \/ rd.ok /\ add_source("s1", rd.txs)
           \/ /\ ~rd.ok
              /\ call' = Call("add_source", "s1", <<>>, FALSE, None, <<>>, <<>>)
              /\ pre' = Snapshot
              /\ UNCHANGED <<transactions, nodes, edges, source_capabilities,
                             source_store, source_update, source_root, sources,
                             panicked>>
    /\ UNCHANGED aux

NextDisk == WriteFile \/ AddSourceDisk

SpecDisk == Init /\ [][NextDisk]_vars

----------------------------------------------------------------------------
(* The DataNode view of a Node: views.rs. *)

\* The longest child list and sibling list of the DataNodes the model builds.
MaxList == 2

\* A DataNode: data, a child list and a sibling list.
DataNode(data, child, sibling) ==
    [data |-> data, child |-> child, sibling |-> sibling]

RECURSIVE data_node_set(_, _)
\* Node::data_node_set: store dn.data at the next free index, then the first
\* child and the first sibling; the blob map afterwards and the DataView.
data_node_set(blob, dn) ==
    LET index == Cardinality(DOMAIN blob)
        blob1 == Put(blob, index, dn.data)
        c == IF dn.child # <<>> THEN Some(data_node_set(blob1, dn.child[1]))
             ELSE None
        blob2 == IF c # None THEN c[1].blob ELSE blob1
        sb == IF dn.sibling # <<>>
              THEN Some(data_node_set(blob2, dn.sibling[1])) ELSE None
        blob3 == IF sb # None THEN sb[1].blob ELSE blob2
    IN  [blob |-> blob3,
         dv |-> DataView(index,
                         IF c # None THEN Some(c[1].dv) ELSE None,
                         IF sb # None THEN Some(sb[1].dv) ELSE None)]

\* Node::view_data_node_set: clear data_blob, then data_node_set.
view_data_node_set(v, dn) ==
    LET r == data_node_set(EmptyMap, dn)
    IN  [v EXCEPT !.data_blob = r.blob, !.data_view = r.dv]

RECURSIVE data_node_get(_, _)
\* Node::data_node_get
data_node_get(blob, dv) ==
    IF dv.index \in DOMAIN blob
    THEN DataNode(blob[dv.index],
                  IF dv.child # None
                  THEN <<data_node_get(blob, dv.child[1])>> ELSE <<>>,
                  IF dv.sibling # None
                  THEN <<data_node_get(blob, dv.sibling[1])>> ELSE <<>>)
    ELSE DataNode("", <<>>, <<>>)

\* Node::view_data_node_get
view_data_node_get(v) == data_node_get(v.data_blob, v.data_view)

\* The sequences of 0..n elements of S.
SeqsUpTo(S, n) == UNION {[1..k -> S] : k \in 0..n}

\* DataNodes without children or siblings.
Leaves == {DataNode(d, <<>>, <<>>) : d \in {"a", "b"}}

\* DataNodes whose children and siblings are leaves.
Shrubs ==
    {DataNode(d, c, sb) : d \in {"a", "b"}, c \in SeqsUpTo(Leaves, MaxList),
                          sb \in SeqsUpTo(Leaves, MaxList)}

\* The trees handed to view_data_node_set: the shrubs, and a root over one
\* shrub as its child (so that a child has a sibling, as in
\* test_datanode_single).
DataNodes ==
    Shrubs \cup {DataNode("a", <<c>>, <<>>) : c \in Shrubs}

\* view_data_node_set(dn) on the Node.
ViewDataNodeSet ==
    /\ \E dn \in DataNodes :
          view' = [view_data_node_set(view, dn) EXCEPT !.set = Some(dn)]
    /\ UNCHANGED world
    /\ UNCHANGED <<held, closed, disk, dlast, sub>>
    /\ UNCHANGED side

NextView == ViewDataNodeSet

SpecView == Init /\ [][NextView]_vars

----------------------------------------------------------------------------
(* SourceDisk::subscribe as a process: the subscribe specification. *)

\* The capacity of the channel subscribe() creates.
ChannelCapacity == 100

\* The most directory entries (files that are not markdown, directories) the
\* model lets read_dir find; each yields two transactions.
MaxDiskEntries == 51

\* subscribe() is called: it creates the channel and read_dir returns the
\* transactions of the directory, two for each entry.
SubscribeStart ==
    /\ ~sub.running
    /\ \E entries \in 0..MaxDiskEntries :
          sub' = [running |-> TRUE, returned |-> FALSE, todo |-> 2 * entries,
                  buffered |-> 0]
    /\ UNCHANGED world
    /\ UNCHANGED <<held, closed, disk, dlast, view>>
    /\ UNCHANGED side

\* One turn of `for tx in .. { sender.send(tx).await? }`: send completes when
\* the channel has room. Nobody receives meanwhile: the Receiver is what
\* subscribe() has yet to return.
SubscribeSend ==
    /\ sub.running
    /\ sub.todo > 0
    /\ sub.buffered < ChannelCapacity
    /\ sub' = [sub EXCEPT !.todo = @ - 1, !.buffered = @ + 1]
    /\ UNCHANGED world
    /\ UNCHANGED <<held, closed, disk, dlast, view>>
    /\ UNCHANGED side

\* The loop is over: Ok(disk_txs).
SubscribeReturn ==
    /\ sub.running
    /\ sub.todo = 0
    /\ sub' = [sub EXCEPT !.running = FALSE, !.returned = TRUE]
    /\ UNCHANGED world
    /\ UNCHANGED <<held, closed, disk, dlast, view>>
    /\ UNCHANGED side

NextSubscribe == SubscribeStart \/ SubscribeSend \/ SubscribeReturn

SpecSubscribe == Init /\ [][NextSubscribe]_vars

\* The same under a scheduler that runs the task whenever it can go on.
SpecSubscribeFair ==
    SpecSubscribe /\ WF_vars(SubscribeSend) /\ WF_vars(SubscribeReturn)

----------------------------------------------------------------------------
(* The backend's persistence store: backend/src/storage.rs. *)

\* NodeID::zero(): the reserved key.
ZeroKey == "0"

\* The ids NodeID::rnd() hands out.
RndIDs == {"k1", "k2"}

\* The ids a Node or an Edge posted to the backend may carry: NodeID and
\* EdgeID are both 32 bytes and share the one key space of the Db.
StoreIDs == {ZeroKey} \cup RndIDs

\* root.id.as_ref(): the 32 bytes of an id.
IdBytes(id) == [enc |-> "id", val |-> id]

\* bincode::serde::encode_to_vec(&node, ..): longer than 32 bytes, it holds
\* the id and the other fields.
encode_node(node) == [enc |-> "node", val |-> node]

\* bincode::serde::encode_to_vec(&edge, ..)
encode_edge(edge) == [enc |-> "edge", val |-> edge]

\* id_u8.as_ref().try_into(): Ok for a slice of exactly 32 bytes.
try_into_id(bytes) == IF bytes.enc = "id" THEN Some(bytes.val) ELSE None

\* bincode::serde::decode_from_slice::<Node>: the Node for bytes encoded from
\* a Node, None (an error) for the bytes of an Edge or of a bare id.
decode_node(bytes) == IF bytes.enc = "node" THEN Some(bytes.val) ELSE None

\* The Nodes and Edges clients post.
StoreNodes == {Node_label(id, l, <<>>) : id \in StoreIDs, l \in {"A", "B"}}

StoreEdges == {Edge_new(id, Contains("k1", "k2"), <<>>) : id \in StoreIDs}

\* Storage::get_root, rnd the id Node::label draws if a root is made.
get_root(db, rnd) ==
    LET create == LET root == Node_label(rnd, "Universe", <<>>)
                  IN  [ok |-> TRUE, root |-> Some(root),
                       db |-> Put(Put(db, ZeroKey, IdBytes(root.id)),
                                  root.id, encode_node(root))]
        err == [ok |-> FALSE, root |-> None, db |-> db]
    IN  IF ZeroKey \in DOMAIN db
        THEN LET id == try_into_id(db[ZeroKey])
             IN  IF id = None THEN err
                 ELSE IF id[1] \in DOMAIN db
                      THEN LET node == decode_node(db[id[1]])
                           IN  IF node = None THEN err
                               ELSE [ok |-> TRUE, root |-> node, db |-> db]
                      ELSE create
        ELSE create

\* Storage::new, at the launch of the backend.
StorageNew ==
    /\ ~storage.open
    /\ \E rnd \in RndIDs :
          LET r == get_root(storage.db, rnd)
          IN  storage' = [db |-> r.db, open |-> r.ok, root |-> r.root,
                          failed |-> ~r.ok]
    /\ UNCHANGED world
    /\ UNCHANGED <<held, closed, disk, dlast, view, sub, chan>>

\* The backend stops; the Db stays on disk.
StorageStop ==
    /\ storage.open
    /\ storage' = [storage EXCEPT !.open = FALSE, !.root = None]
    /\ UNCHANGED world
    /\ UNCHANGED <<held, closed, disk, dlast, view, sub, chan>>

\* Storage::update_node
UpdateNode ==
    /\ storage.open
    /\ \E node \in StoreNodes :
          storage' = [storage EXCEPT !.db = Put(@, node.id, encode_node(node))]
    /\ UNCHANGED world
    /\ UNCHANGED <<held, closed, disk, dlast, view, sub, chan>>

\* Storage::update_edge
UpdateEdge ==
    /\ storage.open
    /\ \E edge \in StoreEdges :
          storage' = [storage EXCEPT !.db = Put(@, edge.id, encode_edge(edge))]
    /\ UNCHANGED world
    /\ UNCHANGED <<held, closed, disk, dlast, view, sub, chan>>

NextStorage == StorageNew \/ StorageStop \/ UpdateNode \/ UpdateEdge

SpecStorage == Init /\ [][NextStorage]_vars

----------------------------------------------------------------------------
(* The disk source's channel, from subscribe() to the drain: the channel
   specification. A transaction is known by its place in read_dir's list. *)

\* The capacity of the channel add_source opens towards the source.
InboundCapacity == 10

\* The most transactions the model lets read_dir return.
MaxChannelTxs == 102

\* The numbers 1..n in order.
Iota(n) == [i \in 1..n |-> i]

\* sender.send(tx).await as it would be if a send into a full channel gave
\* the transaction up instead of waiting.
ChannelSendLossy ==
    /\ chan.running
    /\ chan.todo # <<>>
    /\ chan' = [chan EXCEPT !.todo = Tail(@),
                            !.sent = @ + 1,
                            !.buf = IF Len(@) < ChannelCapacity
                                    THEN Append(@, Head(chan.todo)) ELSE @]
    /\ UNCHANGED world
    /\ UNCHANGED <<held, closed, disk, dlast, view, sub, storage>>

\* subscribe() is called for a WorldView fresh from new(): channel(100), and
\* read_dir returns its list.
ChannelSubscribe ==
    /\ ~chan.running
    /\ call.op = "new"
    /\ \E n \in 0..MaxChannelTxs :
          chan' = [ChanIdle EXCEPT !.running = TRUE, !.todo = Iota(n)]
    /\ UNCHANGED world
    /\ UNCHANGED <<held, closed, disk, dlast, view, sub, storage>>

\* sender.send(tx).await: completes when the channel has room, and waits
\* while it has none.
ChannelSend ==
    /\ chan.running
    /\ chan.todo # <<>>
    /\ Len(chan.buf) < ChannelCapacity
    /\ chan' = [chan EXCEPT !.todo = Tail(@),
                            !.sent = @ + 1,
                            !.buf = Append(@, Head(chan.todo))]
    /\ UNCHANGED world
    /\ UNCHANGED <<held, closed, disk, dlast, view, sub, storage>>

\* Ok(disk_txs)
ChannelReturn ==
    /\ chan.running
    /\ chan.todo = <<>>
    /\ chan' = [chan EXCEPT !.running = FALSE, !.returned = TRUE]
    /\ UNCHANGED world
    /\ UNCHANGED <<held, closed, disk, dlast, view, sub, storage>>

\* fetch: while let Ok(tx) = source.try_recv() { txs.push(tx) }
ChannelFetch ==
    /\ chan.returned
    /\ chan.buf # <<>>
    /\ chan' = [chan EXCEPT !.got = @ \o chan.buf, !.buf = <<>>]
    /\ UNCHANGED world
    /\ UNCHANGED <<held, closed, disk, dlast, view, sub, storage>>

\* The aggregator's calls, each opening an inbound channel for its source.
AddSourceChannel ==
    /\ chan = ChanIdle
    /\ AddSourceOf(SourceIDs, FreshPool, MaxLog)

AddTransactionsChannel ==
    /\ chan = ChanIdle
    /\ AddTransactionsOf(SourceIDs, FreshPool, MaxLog)

NextChannel ==
    \/ ChannelSubscribe \/ ChannelSend \/ ChannelReturn \/ ChannelFetch
    \/ AddSourceChannel \/ AddTransactionsChannel

SpecChannel == Init /\ [][NextChannel]_vars

----------------------------------------------------------------------------
(* Helpers of the properties. *)

\* How often x occurs in the sequence h.
Count(h, x) == Cardinality({i \in 1..Len(h) : h[i] = x})

\* The NodeIDs an edge kind names (none for Equality, which has no policy).
Participants(kind) ==
    IF kind.type = "Equality" THEN {}
    ELSE {kind.ids[i] : i \in 1..Len(kind.ids)}

\* The last call returned (it did not unwind from a todo!()).
Returned(op) == call.op = op /\ ~panicked

\* The last call applied exactly the one-record transaction it was given.
SingleRecord ==
    /\ Len(call.txs) = 1
    /\ Len(call.txs[1].records) = 1

IsCreate(r) == r.base.right # None

IsUpdate(r) == r.base.left # None

----------------------------------------------------------------------------
(* C1 .. C10 *)

\* C1: bidirectional linkage. After every call that returned, for every Edge
\* stored and every NodeID of its kind's participant set that is in the nodes
\* table, that Node's edges map holds the Edge's id mapped to the Edge's
\* current kind.
C1_Linkage ==
    ~panicked =>
        \A e \in DOMAIN edges : \A n \in Participants(edges[e].kind) :
            n \in DOMAIN nodes =>
                /\ e \in DOMAIN nodes[n].edges
                /\ nodes[n].edges[e] = edges[e].kind

\* C2: history idempotence. When one call applies the same one-record
\* transaction twice, to an entity whose history did not hold that event, the
\* entity stored afterwards holds the event exactly once and, for a Node, shows
\* the record's updates applied once to what it was before.
C2_Idempotent ==
    (/\ Returned("add_transactions")
     /\ Len(call.txs) = 2
     /\ call.txs[1] = call.txs[2]
     /\ Len(call.txs[1].records) = 1) =>
        LET tx == call.txs[1]
            r  == tx.records[1]
            ev == RecordEvent(tx.timestamp, r)
            id == get_id(r)
            before == IF r.ent = "Node" THEN pre.nodes ELSE pre.edges
            after  == IF r.ent = "Node" THEN nodes ELSE edges
            base   == IF IsCreate(r) THEN r.base.right[1] ELSE before[id]
        IN  ((IsCreate(r) \/ id \in DOMAIN before) /\ Count(base.history, ev) = 0) =>
                /\ id \in DOMAIN after
                /\ Count(after[id].history, ev) = 1
                /\ r.ent = "Node" =>
                      LET once == Node_update_all(base, r.updates)
                      IN  /\ after[id].label = once.label
                          /\ after[id].op_version = once.op_version
                          /\ after[id].data = once.data
                          /\ after[id].arguments = once.arguments

\* C3: create-then-update. After T1 creating a fresh Node with label "A" and
\* T2 setting its label to "B" through its ID, get_node returns label "B" and
\* a history of length 2.
C3_CreateThenUpdate ==
    \A id \in NodeIDs :
        (/\ Returned("add_transactions")
         /\ pre.nodes = EmptyMap
         /\ call.txs = <<Transaction(1, <<RecordNode(Right(Node_label(id, "A", <<>>)),
                                                     <<>>)>>),
                         Transaction(1, <<RecordNode(Left(id),
                                                     <<ULabel("B")>>)>>)>>) =>
            /\ get_node(id) # None
            /\ get_node(id)[1].label = "B"
            /\ Len(get_node(id)[1].history) = 2

\* Whether a stream holds a Node record at all.
HasNodeRecord(txs) ==
    \E i \in 1..Len(txs) : \E j \in 1..Len(txs[i].records) :
        txs[i].records[j].ent = "Node"

\* C4: bootstrap atomicity. add_source on a stream without Node records
\* returns an error and leaves nodes and edges as they were.
C4_BootstrapAtomic ==
    (Returned("add_source") /\ ~HasNodeRecord(call.txs)) =>
        /\ ~call.ok
        /\ nodes = pre.nodes
        /\ edges = pre.edges

\* C5: kind transition. When one record changes the kind stored for an EdgeID,
\* afterwards no old participant that the new kind does not name still has the
\* entry, and every new participant in the nodes table has it with the new kind.
C5_KindTransition ==
    (~panicked /\ SingleRecord) =>
        \A e \in (DOMAIN pre.edges) \cap (DOMAIN edges) :
            pre.edges[e].kind # edges[e].kind =>
                /\ \A n \in Participants(pre.edges[e].kind)
                            \ Participants(edges[e].kind) :
                       n \in DOMAIN nodes => e \notin DOMAIN nodes[n].edges
                /\ \A n \in Participants(edges[e].kind) :
                       n \in DOMAIN nodes =>
                           /\ e \in DOMAIN nodes[n].edges
                           /\ nodes[n].edges[e] = edges[e].kind

\* The tables an empty WorldView reaches by do_tx of the log, in log order.
Replayed == do_txs(TxState(EmptyMap, EmptyMap, <<>>), transactions)

\* C6: deterministic replay. Replaying the transactions log on an empty
\* WorldView gives the nodes and the edges of the current state.
C6_Replay ==
    ~panicked =>
        /\ Replayed.nodes = nodes
        /\ Replayed.edges = edges

\* The records of the pool that update by ID.
UpdateRecords == {r \in Records : IsUpdate(r)}

\* Whether the target of r is absent from table.
Missing(r, table) == IsUpdate(r) /\ get_id(r) \notin DOMAIN table

\* C7: missing-ID updates are dropped. In every state the aggregator reaches,
\* do_tx of a record whose base is an ID absent from its table returns, leaves
\* nodes and edges as they are, and the ID stays absent; and the call that just
\* applied one such record left the tables as they were.
C7_MissingDropped ==
    /\ ~panicked =>
          \A r \in UpdateRecords : \A ts \in Timestamps :
              Missing(r, IF r.ent = "Node" THEN nodes ELSE edges) =>
                  LET st == do_tx(TxState(nodes, edges, transactions),
                                  Transaction(ts, <<r>>))
                  IN  /\ ~st.panicked
                      /\ st.nodes = nodes
                      /\ st.edges = edges
                      /\ get_id(r) \notin
                            DOMAIN (IF r.ent = "Node" THEN st.nodes ELSE st.edges)
    /\ (call.op \in {"add_source", "add_transactions"} /\ SingleRecord
          /\ Missing(call.txs[1].records[1],
                     IF call.txs[1].records[1].ent = "Node"
                     THEN pre.nodes ELSE pre.edges)) =>
          /\ ~panicked
          /\ nodes = pre.nodes
          /\ edges = pre.edges
          /\ IF call.txs[1].records[1].ent = "Node"
             THEN get_node(get_id(call.txs[1].records[1])) = None
             ELSE get_edge(get_id(call.txs[1].records[1])) = None

\* C7's case: an update of an edge that is not stored was applied to a
\* WorldView that holds nodes, and nothing moved.
C7_Witness ==
    /\ call.op = "add_transactions"
    /\ SingleRecord
    /\ call.txs[1].records[1].ent = "Edge"
    /\ Missing(call.txs[1].records[1], pre.edges)
    /\ call.txs[1].records[1].updates # <<>>
    /\ pre.nodes # EmptyMap
    /\ nodes = pre.nodes
    /\ get_edge("e1") = None
    /\ ~panicked

\* C8: the aggregator never aborts on a transaction.
C8_NeverAborts == ~panicked

\* The id of the first Node a stream creates, if any.
RECURSIVE FirstCreated(_)
FirstCreated(records) ==
    IF records = <<>> THEN None
    ELSE IF Head(records).ent = "Node" /\ IsCreate(Head(records))
         THEN Some(get_id(Head(records)))
         ELSE FirstCreated(Tail(records))

RECURSIVE AllRecords(_)
AllRecords(txs) ==
    IF txs = <<>> THEN <<>> ELSE Head(txs).records \o AllRecords(Tail(txs))

\* C9: root of a source. When add_source succeeds, the NodeID returned is the
\* root recorded for the source, it is the first Node the bootstrap
\* transactions created, and get_node finds it.
C9_Root ==
    (Returned("add_source") /\ call.ok) =>
        /\ call.sid \in DOMAIN source_root
        /\ call.root = Some(source_root[call.sid])
        /\ call.root = FirstCreated(AllRecords(call.txs))
        /\ get_node(call.root[1]) # None

\* C10: add_transactions forwards txs, in order, on the inbound channel of the
\* source registered under sourceId, and applies them locally.
C10_Forwards ==
    (/\ Returned("add_transactions")
     /\ call.sid \in DOMAIN pre.source_store
     /\ call.sid \in DOMAIN pre.source_root) =>
        /\ source_store[call.sid] = pre.source_store[call.sid] \o call.txs
        /\ transactions = pre.transactions \o call.txs

----------------------------------------------------------------------------
(* C11 .. C20 *)

\* The part of the WorldView a drain works on, as it is now.
Cur == TxState(nodes, edges, transactions)

\* Source s has transactions waiting in its outbound channel.
Pending(s) == s \in DOMAIN source_update /\ source_update[s] # <<>>

RECURSIVE NodeIdsOf(_)
\* The ids of the Node records of a list of records, in order.
NodeIdsOf(records) ==
    IF records = <<>> THEN <<>>
    ELSE IF Head(records).ent = "Node"
         THEN <<get_id(Head(records))>> \o NodeIdsOf(Tail(records))
         ELSE NodeIdsOf(Tail(records))

C13_RootIsolation ==
    \A s \in DOMAIN pre.source_root :
        /\ s \in DOMAIN source_root
        /\ source_root[s] = pre.source_root[s]

\* A second source bootstrapped with a root of its own while the first
\* source's root was on record.
C13_Witness ==
    /\ Returned("add_source") /\ call.ok
    /\ \E b \in DOMAIN pre.source_root :
          /\ b # call.sid
          /\ call.root # Some(pre.source_root[b])
          /\ source_root[call.sid] # source_root[b]

\* C14: eventual application. Whenever a registered source has a transaction
\* waiting in its outbound channel, the channel is eventually drained.
C14_EventuallyApplied ==
    \A s \in SourceIDs : Pending(s) ~> ~Pending(s)

\* C15: fetch never blocks. A drain of a registered source returns, with
\* exactly the transactions waiting at that moment, leaves that channel empty
\* and the other channels alone; on an empty channel it returns empty lists
\* and changes nothing. For an unknown source it returns an error.
C15_NonBlocking ==
    /\ \A s \in SourceIDs :
          LET f == fetch(source_update, s, Cur)
          IN  IF s \in DOMAIN source_update
              THEN /\ f.ok
                   /\ f.txs = source_update[s]
                   /\ f.updates[s] = <<>>
                   /\ \A o \in DOMAIN source_update \ {s} :
                         f.updates[o] = source_update[o]
                   /\ (source_update[s] = <<>>) =>
                         /\ f.txs = <<>>
                         /\ f.st.nids = <<>> /\ f.st.eids = <<>>
                         /\ f.st = Cur
              ELSE ~f.ok /\ f.st = Cur
    /\ Returned("add_source") => source_update[call.sid] = <<>>

\* One registered source has nothing waiting while another has two
\* transactions buffered.
C15_Witness ==
    \E s, t \in DOMAIN source_update :
        /\ source_update[s] = <<>>
        /\ Len(source_update[t]) >= 2

\* C16: no re-delivery. A drain hands each waiting transaction to do_tx once
\* (the log grows by one entry each), and a second drain right after it finds
\* nothing, applies nothing and leaves nodes, edges and the log as they were.
C16_NoRedelivery ==
    \A s \in DOMAIN source_update :
        LET f1 == fetch(source_update, s, Cur)
            f2 == fetch(f1.updates, s,
                        TxState(f1.st.nodes, f1.st.edges, f1.st.transactions))
        IN  /\ Len(f1.st.transactions) = Len(transactions) + Len(source_update[s])
            /\ f2.txs = <<>>
            /\ f2.st.nids = <<>> /\ f2.st.eids = <<>>
            /\ f2.st.nodes = f1.st.nodes
            /\ f2.st.edges = f1.st.edges
            /\ f2.st.transactions = f1.st.transactions

\* A source has transactions waiting whose first drain changes the nodes
\* table.
C16_Witness ==
    \E s \in DOMAIN source_update :
        /\ Pending(s)
        /\ fetch(source_update, s, Cur).st.nodes # nodes

\* The IDs the records of a transaction name as their targets.
Targets(tx) == {get_id(tx.records[i]) : i \in 1..Len(tx.records)}

\* C12: independence of interleaving. When the last call applied two
\* transactions whose records target disjoint sets of IDs, applying the two in
\* the other order to the state before the call gives the same get_node and
\* get_edge results for every ID.
C12_Independent ==
    (/\ Returned("add_transactions")
     /\ Len(call.txs) = 2
     /\ Targets(call.txs[1]) \cap Targets(call.txs[2]) = {}) =>
        LET other == do_txs(TxState(pre.nodes, pre.edges, pre.transactions),
                            <<call.txs[2], call.txs[1]>>)
        IN  ~other.panicked => (other.nodes = nodes /\ other.edges = edges)

\* C17: attach on creation. After do_tx of a Create record for an Edge of kind
\* Definition, Using or Contains whose two participants were in the nodes table,
\* both participants map the Edge's id to its kind and get_edge returns an Edge
\* with that id and kind.
C17_AttachOnCreate ==
    (/\ Returned("add_transactions") /\ SingleRecord
     /\ call.txs[1].records[1].ent = "Edge"
     /\ IsCreate(call.txs[1].records[1])
     /\ call.txs[1].records[1].base.right[1].kind.type # "Equality"
     /\ Participants(call.txs[1].records[1].base.right[1].kind)
            \subseteq DOMAIN pre.nodes) =>
        LET e == call.txs[1].records[1].base.right[1]
        IN  /\ \A n \in Participants(e.kind) :
                  /\ n \in DOMAIN nodes
                  /\ e.id \in DOMAIN nodes[n].edges
                  /\ nodes[n].edges[e.id] = e.kind
            /\ get_edge(e.id) # None
            /\ get_edge(e.id)[1].id = e.id
            /\ get_edge(e.id)[1].kind = e.kind

\* An Edge was created between two nodes already stored, neither of which knew
\* the Edge's id before.
C17_Witness ==
    /\ Returned("add_transactions") /\ SingleRecord
    /\ call.txs[1].records[1].ent = "Edge"
    /\ IsCreate(call.txs[1].records[1])
    /\ call.txs[1].records[1].base.right[1].kind.type # "Equality"
    /\ Participants(call.txs[1].records[1].base.right[1].kind)
           \subseteq DOMAIN pre.nodes
    /\ \A n \in Participants(call.txs[1].records[1].base.right[1].kind) :
          /\ pre.nodes[n].edges = EmptyMap
          /\ nodes[n].edges # EmptyMap

\* C18: creation seeds history. After do_tx of a Create record whose payload
\* has an empty history, the stored entity's history is non-empty and starts
\* with the creation event (transaction timestamp, that record).
C18_SeedsHistory ==
    (/\ Returned("add_transactions") /\ SingleRecord
     /\ IsCreate(call.txs[1].records[1])
     /\ call.txs[1].records[1].base.right[1].history = <<>>) =>
        LET r == call.txs[1].records[1]
            table == IF r.ent = "Node" THEN nodes ELSE edges
        IN  /\ get_id(r) \in DOMAIN table
            /\ table[get_id(r)].history # <<>>
            /\ table[get_id(r)].history[1] =
                  RecordEvent(call.txs[1].timestamp, r)

\* C19: create with embedded updates. After do_tx of a Node record whose base
\* is a full Node and whose updates list is non-empty, the stored Node has the
\* fields of the payload with the updates applied in list order.
C19_EmbeddedUpdates ==
    (/\ Returned("add_transactions") /\ SingleRecord
     /\ call.txs[1].records[1].ent = "Node"
     /\ IsCreate(call.txs[1].records[1])
     /\ call.txs[1].records[1].updates # <<>>) =>
        LET r == call.txs[1].records[1]
            want == Node_update_all(r.base.right[1], r.updates)
        IN  /\ get_id(r) \in DOMAIN nodes
            /\ nodes[get_id(r)].label = want.label
            /\ nodes[get_id(r)].data = want.data
            /\ nodes[get_id(r)].arguments = want.arguments
            /\ nodes[get_id(r)].op_version = want.op_version

\* No two neighbours of the sequence h are equal.
NoAdjacentRepeat(h) == \A i \in 1..(Len(h) - 1) : h[i] # h[i + 1]

\* C20: history dedup invariant. With every entity created with an empty
\* history, no stored Node and no stored Edge has two equal adjacent entries
\* in its history.
C20_HistoryDedup ==
    /\ \A n \in DOMAIN nodes : NoAdjacentRepeat(nodes[n].history)
    /\ \A e \in DOMAIN edges : NoAdjacentRepeat(edges[e].history)

----------------------------------------------------------------------------
(* C21 .. C30 *)

\* C21: a failed add_source leaves the source bookkeeping untouched. After the
\* zero-root error the WorldView has no capabilities entry, no channel handle
\* and no root under the failing source's id, and the entries of the sources
\* registered before are what they were.
C21_FailedSourceUntouched ==
    (Returned("add_source") /\ ~call.ok) =>
        /\ call.sid \notin DOMAIN source_capabilities
        /\ call.sid \notin DOMAIN source_store
        /\ call.sid \notin DOMAIN source_update
        /\ call.sid \notin DOMAIN source_root
        /\ call.sid \notin sources
        /\ \A o \in pre.sources \ {call.sid} :
              /\ source_capabilities[o] = pre.source_capabilities[o]
              /\ source_store[o] = pre.source_store[o]
              /\ source_update[o] = pre.source_update[o]

\* C24: entities are never physically removed. Every key of the nodes table
\* and of the edges table before a call is still a key after it, whatever the
\* call applied, records carrying NodeUpdate::Delete included.
C24_NeverRemoved ==
    /\ DOMAIN pre.nodes \subseteq DOMAIN nodes
    /\ DOMAIN pre.edges \subseteq DOMAIN edges

\* A Delete update was applied to a stored node (its history took the event)
\* and the node is still in the table.
C24_Witness ==
    /\ Returned("add_transactions") /\ SingleRecord
    /\ call.txs[1].records[1].updates = <<UDelete>>
    /\ get_id(call.txs[1].records[1]) \in DOMAIN pre.nodes
    /\ get_id(call.txs[1].records[1]) \in DOMAIN nodes
    /\ Len(nodes[get_id(call.txs[1].records[1])].history) >
         Len(pre.nodes[get_id(call.txs[1].records[1])].history)

\* The updates Node::update is asked about: one of every variant, Migrate
\* with nested updates and with a Migrate nested in it.
VersionUpdates ==
    {ULabel("B"), UData("d"), USetArgument("k", "v"), URemoveArgument("k"),
     UDelete, UMigrate(1, <<>>),
     UMigrate(2, <<ULabel("C"), USetArgument("k", "v"), ULabel("D")>>),
     UMigrate(2, <<UMigrate(3, <<ULabel("C")>>), URemoveArgument("k")>>)}

RECURSIVE OneByOne(_, _, _)
\* The node after the updates us[i], us[i+1], .. were applied to it in turn.
OneByOne(node, us, i) ==
    IF i > Len(us) THEN node
    ELSE OneByOne(Node_update(node, us[i]), us, i + 1)

\* C29: op_version changes only through Migrate. Applying Label, Data,
\* SetArgument, RemoveArgument or Delete to a stored Node leaves op_version as
\* it was; applying Migrate(version, nested) gives the Node with op_version
\* set to version and then every update of nested applied in list order.
C29_OpVersion ==
    \A n \in DOMAIN nodes : \A u \in VersionUpdates :
        IF u.op = "Migrate"
        THEN Node_update(nodes[n], u) =
                OneByOne([nodes[n] EXCEPT !.op_version = u.ver], u.nested, 1)
        ELSE Node_update(nodes[n], u).op_version = nodes[n].op_version

\* A Migrate with a nested Label update was applied to a stored node: its
\* op_version and its label are the new ones.
C29_Witness ==
    /\ Returned("add_transactions") /\ SingleRecord
    /\ call.txs[1].records[1].updates = <<UMigrate(2, <<ULabel("B")>>)>>
    /\ "n1" \in DOMAIN pre.nodes
    /\ pre.nodes["n1"].op_version # 2
    /\ pre.nodes["n1"].label # "B"
    /\ nodes["n1"].op_version = 2
    /\ nodes["n1"].label = "B"

\* C30: op_version is monotonic. The op_version of the Node stored under a
\* NodeID after a call is at least what it was before the call.
C30_Monotonic ==
    \A n \in DOMAIN pre.nodes \cap DOMAIN nodes :
        nodes[n].op_version >= pre.nodes[n].op_version

\* C22: get_node(id) / get_edge(id) hand out a copy equal to the entity stored
\* under id, or none when id is not a key; the call changes nothing in the
\* WorldView; and whatever is applied afterwards, the copy handed out stays
\* what it was.
C22_SnapshotCopy ==
    [][IF call'.op \in {"get_node", "get_edge"}
       THEN /\ held' # None
            /\ held'[1].val =
                  (IF held'[1].ent = "Node"
                   THEN IF held'[1].id \in DOMAIN nodes
                        THEN Some(nodes[held'[1].id]) ELSE None
                   ELSE IF held'[1].id \in DOMAIN edges
                        THEN Some(edges[held'[1].id]) ELSE None)
            /\ UNCHANGED <<transactions, nodes, edges, source_capabilities,
                           source_store, source_update, source_root, sources>>
       ELSE held' = held]_vars

\* A caller holds a copy of a Node, a transaction applied since changed the
\* stored Node, and the copy differs from what is stored now.
C22_Witness ==
    /\ Returned("add_transactions")
    /\ held # None
    /\ held[1].ent = "Node"
    /\ held[1].val # None
    /\ held[1].val[1] = pre.nodes[held[1].id]
    /\ nodes[held[1].id] # held[1].val[1]

\* C25: channel closure is not an error. A drain of a source whose producer
\* dropped its Sender returns successfully with every transaction still
\* buffered, applied in order, and leaves the channel empty; an add_source
\* whose channel was closed before the drain succeeds when its stream has a
\* Node record.
C25_ClosedNotError ==
    /\ \A s \in closed :
          LET f == fetch(source_update, s, Cur)
              all == do_txs(Cur, source_update[s])
          IN  /\ f.ok
              /\ f.txs = source_update[s]
              /\ f.updates[s] = <<>>
              /\ f.st.nodes = all.nodes
              /\ f.st.edges = all.edges
              /\ f.st.transactions = transactions \o source_update[s]
    /\ (Returned("add_source") /\ call.sid \in closed
                               /\ HasNodeRecord(call.txs)) => call.ok

\* A closed channel still holds transactions whose drain changes the nodes
\* table.
C25_Witness ==
    \E s \in closed :
        /\ source_update[s] # <<>>
        /\ fetch(source_update, s, Cur).ok
        /\ fetch(source_update, s, Cur).st.nodes # nodes

\* C26: subscribe returns promptly. Whatever the directory holds, a call of
\* SourceDisk::subscribe that has started eventually returns the receiving
\* end, without anybody reading from the channel.
C26_SubscribeReturns == sub.running ~> sub.returned

\* C27: DataNode round trip. After view_data_node_set(dn) on a Node,
\* view_data_node_get() returns a DataNode equal to dn, for every tree dn.
C27_RoundTrip ==
    (view.set # None) => view_data_node_get(view) = view.set[1]

\* The directory holds exactly one file, notes.md, and no directory.
OnlyNotes == disk.dirs = EmptyMap /\ DOMAIN disk.files = {"notes.md"}

\* C23: disk source bootstrap. Registering a disk source whose directory holds
\* exactly the file notes.md succeeds and returns the root's NodeID; at least
\* two Nodes are stored, and at least one Edge of kind Contains links the root
\* to another stored Node.
C23_DiskBootstrap ==
    (Returned("add_source") /\ OnlyNotes) =>
        /\ call.ok
        /\ call.root # None
        /\ call.root[1] \in DOMAIN nodes
        /\ Cardinality(DOMAIN nodes) >= 2
        /\ \E e \in DOMAIN edges :
              /\ edges[e].kind.type = "Contains"
              /\ edges[e].kind.ids[1] = call.root[1]
              /\ edges[e].kind.ids[2] \in DOMAIN nodes \ {call.root[1]}

RECURSIVE FilesOf(_, _)
\* Every file of dir, as the pair of its path (under prefix) and its content.
FilesOf(dir, prefix) ==
    {<<prefix \o <<f>>, dir.files[f]>> : f \in DOMAIN dir.files} \cup
    UNION {FilesOf(dir.dirs[d], prefix \o <<d>>) : d \in DOMAIN dir.dirs}

RECURSIVE DirsOf(_, _)
\* The path (under prefix) of every directory below dir.
DirsOf(dir, prefix) ==
    {prefix \o <<d>> : d \in DOMAIN dir.dirs} \cup
    UNION {DirsOf(dir.dirs[d], prefix \o <<d>>) : d \in DOMAIN dir.dirs}

\* p is a proper prefix of q.
ProperPrefix(p, q) == Len(p) < Len(q) /\ SubSeq(q, 1, Len(p)) = p

\* C28: write_file on a path whose file does not exist returns Ok and stores
\* the content: read_file of the path returns it, every other file is as it
\* was and every directory there was is still there (the new ones lie on the
\* path). write_file on a path whose file exists returns an error and leaves
\* the emulated directory as it was.
C28_WriteFile ==
    (dlast.op = "write_file" /\ dlast.path # <<>>) =>
        IF ~read_file(dlast.pre, dlast.path).ok
        THEN /\ dlast.ok
             /\ read_file(disk, dlast.path) =
                   [ok |-> TRUE, content |-> dlast.content]
             /\ FilesOf(disk, <<>>) =
                   FilesOf(dlast.pre, <<>>) \cup {<<dlast.path, dlast.content>>}
             /\ DirsOf(dlast.pre, <<>>) \subseteq DirsOf(disk, <<>>)
             /\ \A d \in DirsOf(disk, <<>>) \ DirsOf(dlast.pre, <<>>) :
                   ProperPrefix(d, dlast.path)
        ELSE /\ ~dlast.ok
             /\ disk = dlast.pre

\* A file was written below a directory that did not exist, beside files
\* that did; and the directory now refuses a second write to that path.
C28_Witness ==
    /\ dlast.op = "write_file"
    /\ dlast.ok
    /\ Len(dlast.path) = 2
    /\ dlast.pre.files # EmptyMap
    /\ dlast.path[1] \notin DOMAIN dlast.pre.dirs
    /\ ~write_file(disk, dlast.path, "x").ok

----------------------------------------------------------------------------
(* C31 .. C40 *)

\* C39: root indirection of the persistence store. In every state reached
\* through Storage::new, update_node and update_edge in which the store was
\* initialised, the all-zero key holds the 32 bytes of an id and the key with
\* that id holds a payload that decodes to a Node, so that get_root returns
\* that Node and makes no new root.
C39_RootIndirection ==
    (storage.db # EmptyMap) =>
        /\ ZeroKey \in DOMAIN storage.db
        /\ try_into_id(storage.db[ZeroKey]) # None
        /\ try_into_id(storage.db[ZeroKey])[1] \in DOMAIN storage.db
        /\ decode_node(storage.db[try_into_id(storage.db[ZeroKey])[1]]) # None
        /\ \A rnd \in RndIDs :
              LET r == get_root(storage.db, rnd)
              IN  r.ok /\ r.db = storage.db

\* The events an attach or a detach may be given: the creation and the
\* ID-only update of each edge payload.
EdgeEvents ==
    {RecordEvent(ts, RecordEdge(Right(e), <<>>)) :
        ts \in Timestamps, e \in EdgePayloads} \cup
    {RecordEvent(ts, RecordEdge(Left(id), <<>>)) :
        ts \in Timestamps, id \in EdgeIDs}

\* C31: attach records the event on participants. In every reachable state,
\* attaching any Edge (of a kind with a participant policy) with any event e
\* leaves every participant in the nodes table with e appended to its
\* history if its last entry is not e, an empty history included, and with
\* its history as it was if its last entry is e.
C31_AttachRecords ==
    \A edge \in EdgePayloads : \A re \in EdgeEvents :
        (edge.kind.type # "Equality") =>
            LET after == apply_edge_to_nodes(nodes, re, edge).nodes
            IN  \A n \in Participants(edge.kind) \cap DOMAIN nodes :
                    after[n].history =
                        IF nodes[n].history # <<>> /\ Last(nodes[n].history) = re
                        THEN nodes[n].history
                        ELSE Append(nodes[n].history, re)

\* C32: detach only removes the back-reference. In every reachable state,
\* detaching any stored Edge (of a kind with a participant policy) with any
\* event leaves every participant in the nodes table as it was but for
\* edges[edge.id], which is gone, and every other Node as it was.
C32_DetachOnly ==
    \A eid \in DOMAIN edges : \A re \in EdgeEvents :
        (edges[eid].kind.type # "Equality") =>
            LET after == remove_edge_from_nodes(nodes, re, edges[eid]).nodes
            IN  /\ DOMAIN after = DOMAIN nodes
                /\ \A n \in DOMAIN nodes :
                      after[n] = IF n \in Participants(edges[eid].kind)
                                 THEN [nodes[n] EXCEPT !.edges = Remove(@, eid)]
                                 ELSE nodes[n]

\* C33: every NodeID and EdgeID do_tx returns identifies an entity it created
\* or updated. After every call that returned, each NodeID of the lists the
\* do_tx calls returned is a key of the nodes table and each EdgeID a key of
\* the edges table.
C33_ReturnedIdsStored ==
    (Returned("add_transactions") \/ Returned("add_source")) =>
        /\ \A i \in 1..Len(call.nids) : call.nids[i] \in DOMAIN nodes
        /\ \A i \in 1..Len(call.eids) : call.eids[i] \in DOMAIN edges

\* s is the head of t.
IsPrefix(s, t) == Len(s) <= Len(t) /\ SubSeq(t, 1, Len(s)) = s

\* C34: the transactions log is append-only. After every call of add_source
\* and add_transactions the log of before the call is a prefix of the log,
\* and in every reachable state the log is a prefix of the log any single
\* do_tx would leave.
C34_AppendOnly ==
    /\ IsPrefix(pre.transactions, transactions)
    /\ \A tx \in TxPool : IsPrefix(transactions, do_tx(Cur, tx).transactions)

\* A successful add_source on a log that was not empty: the log grew.
C34_Witness ==
    /\ Returned("add_source")
    /\ call.ok
    /\ pre.transactions # <<>>
    /\ Len(transactions) > Len(pre.transactions)
    /\ IsPrefix(pre.transactions, transactions)

\* C35: each applied transaction is logged exactly once. After every call of
\* add_source and add_transactions that returned, the log is the log of
\* before the call followed by the transactions do_tx applied, once each, in
\* application order.
C35_LoggedOnce ==
    (Returned("add_transactions") \/ (Returned("add_source") /\ call.ok)) =>
        transactions = pre.transactions \o call.txs

\* C36: do_tx is the only mutation path. After every call of add_source and
\* add_transactions the nodes and edges tables are those the do_tx calls on
\* the call's transactions leave, applied to the tables of before the call;
\* after every call of get_node and get_edge the WorldView is as it was.
C36_OnlyDoTx ==
    /\ (call.op \in {"add_source", "add_transactions"}) =>
          LET st == do_txs(TxState(pre.nodes, pre.edges, pre.transactions),
                           call.txs)
          IN  nodes = st.nodes /\ edges = st.edges
    /\ (call.op \in {"get_node", "get_edge"}) => Snapshot = pre

\* get_node found a Node in a table that holds an Edge as well, and left both.
C36_Witness ==
    /\ call.op = "get_node"
    /\ held # None
    /\ held[1].val # None
    /\ edges # EmptyMap
    /\ nodes = pre.nodes
    /\ nodes # EmptyMap

\* C37: Node kind is immutable. In every step, a Node stored under a NodeID
\* before the step has the same kind after it.
C37_KindImmutable ==
    [][\A id \in DOMAIN nodes :
          id \in DOMAIN nodes' /\ nodes'[id].kind = nodes[id].kind]_vars

\* C38: no stale back-reference. After every call that returned, every entry
\* eid -> kind of a stored Node's edges map has an Edge stored under eid
\* whose kind is kind and whose participants include the Node.
C38_NoStaleBackRef ==
    ~panicked =>
        \A n \in DOMAIN nodes : \A eid \in DOMAIN nodes[n].edges :
            /\ eid \in DOMAIN edges
            /\ edges[eid].kind = nodes[n].edges[eid]
            /\ n \in Participants(edges[eid].kind)

\* C40: bounded channels without loss. In every reachable state the disk
\* source's channel buffers at most ChannelCapacity transactions and every
\* inbound channel at most InboundCapacity; the transactions received
\* followed by those buffered are the transactions sent, in the order sent.
C40_BoundedNoLoss ==
    /\ Len(chan.buf) <= ChannelCapacity
    /\ \A s \in DOMAIN source_store : Len(source_store[s]) <= InboundCapacity
    /\ chan.got \o chan.buf = Iota(chan.sent)

\* The channel is full and the producer still has a transaction to send.
C40_Witness ==
    /\ chan.running
    /\ Len(chan.buf) = ChannelCapacity
    /\ chan.todo # <<>>
    /\ chan.got \o chan.buf = Iota(chan.sent)

============================================================================
